---- MODULE Spec2Model ----
(* Model of src/main.py (Manga Tracker CLI): the reading session             *)
(* MangaTracker.read_chapter_enhanced with its display mechanisms, the       *)
(* progress store (track_manga, mark_chapter_read, save_data, load_data)     *)
(* and the `search` command that drives them.                                *)
(*                                                                           *)
(* Text read from the console is a sequence of one-character strings, so     *)
(* that str.strip() and str.lower() are computed and not assumed.            *)
EXTENDS Integers, Sequences, FiniteSets, TLC

VARIABLES
    pc,              \* position of the process: see PcValues
    caller,          \* "search" (the CLI command) or "direct" (a call of the method)
    system,          \* platform.system() of the host, "unknown" until first read
    manga_id,        \* argument of read_chapter_enhanced
    chapter_number,  \* argument of read_chapter_enhanced
    max_pages,       \* argument of read_chapter_enhanced
    npages,          \* len(pages)
    i,               \* the loop index of the page loop
    display_choice,  \* the local display_choice (stripped text)
    files,           \* page numbers k for which temp_page_k.png exists
    data,            \* self.data['tracked_manga']
    disk,            \* content of manga_data.json
    now,             \* the clock read by datetime.now()
    \* ---- history of the current session (read by the properties only)
    orig_choice,     \* display_choice as entered at the prompt
    created,         \* page numbers whose temp file this session wrote
    fetches,         \* page fetches started
    fetched,         \* index of the page whose fetch was started last, -1 if none
    backs,           \* back moves taken
    failedOn,        \* visit number on which a mechanism first reported failure, 0 if none
    input,           \* the raw line last read at the navigation prompt
    ev,              \* what the last step did
    ret,             \* outcome of read_chapter_enhanced: "none", "True", "False", "raised"
    attempted,       \* mechanism tried on the current page: "1", "2", "3" or "none"
    success,         \* display_success of the current page
    launched,        \* the mechanism really put the page on display
    ascii,           \* the current page was rendered as ASCII art
    marked,          \* mark_chapter_read recorded a chapter in this run
    files0,          \* the temp files found in the directory at start
    \* ---- one call of image_to_ascii_enhanced
    image,           \* the resized greyscale image: width, height, pixels
    pos,             \* pixels consumed by the loop of lines 170-174
    ascii_str,       \* the local ascii_str
    \* ---- the last call of a store method (read by the properties only)
    prev,            \* self.data['tracked_manga'] when the call was made
    saved            \* the call wrote manga_data.json

vars == <<pc, caller, system, manga_id, chapter_number, max_pages, npages, i,
          display_choice, files, data, disk, now, orig_choice, created,
          fetches, fetched, backs, failedOn, input, ev, ret, attempted, success,
          launched, ascii, marked, files0, image, pos, ascii_str, prev, saved>>

----------------------------------------------------------------------------
(* Bounds of the model *)

MaxLen == 3        \* longest page list returned by the catalog
MaxBack == 1       \* back moves explored in one session
MaxChapters == 2   \* longest chapter list returned by the catalog
MaxWidth == 2      \* widest resized image rendered as ASCII art
MaxHeight == 2     \* tallest resized image rendered as ASCII art

Min(a, b) == IF a < b THEN a ELSE b

----------------------------------------------------------------------------
(* Console text *)

Whitespace == {" ", "\t"}

LowerChar(c) ==
    CASE c = "Q" -> "q"
      [] c = "B" -> "b"
      [] c = "N" -> "n"
      [] c = "Y" -> "y"
      [] OTHER -> c

Lower(s) == [k \in 1..Len(s) |-> LowerChar(s[k])]

RECURSIVE LStrip(_)
LStrip(s) ==
    IF s # <<>> /\ Head(s) \in Whitespace THEN LStrip(Tail(s)) ELSE s

RECURSIVE RStrip(_)
RStrip(s) ==
    IF s # <<>> /\ s[Len(s)] \in Whitespace
        THEN RStrip(SubSeq(s, 1, Len(s) - 1))
        ELSE s

Strip(s) == RStrip(LStrip(s))

\* line 252: input().strip().lower()
NavCommand(raw) == Lower(Strip(raw))

\* line 206: input(...).strip() or "1"
ChoiceOf(raw) == IF Strip(raw) = <<>> THEN <<"1">> ELSE Strip(raw)

\* lines the user types at the navigation prompt
NavInputs ==
    { <<>>, <<"q">>, <<"Q", " ">>, <<"b">>, <<"n">> }

\* lines the user types at the display-method prompt
ChoiceInputs ==
    { <<>>, <<"1">>, <<" ", "2">>, <<"3", " ">>, <<"4">>, <<"7">>, <<" ">> }

\* lines the user types at a y/n prompt
YesNoInputs == { <<"y">>, <<"Y", " ">>, <<"n">>, <<>> }

One == <<"1">>
Two == <<"2">>
Three == <<"3">>
Four == <<"4">>

----------------------------------------------------------------------------
(* Display mechanisms *)

Systems == {"Darwin", "Windows", "Linux", "FreeBSD"}

\* line 62: the ordered list of viewer programs
Viewers == <<"xdg-open", "feh", "display", "eog">>

\* how one launch (subprocess.run(check=True), os.startfile) can end
RunOutcomes == {"ok", "CalledProcessError", "FileNotFoundError", "PermissionError"}

NotDisplayed == [ret |-> FALSE, launched |-> FALSE]

\* lines 36-51: True when the window was shown, False on any exception
DisplayImageNative(out) ==
    IF out = "ok" THEN [ret |-> TRUE, launched |-> TRUE] ELSE NotDisplayed

\* lines 62-68: the viewer loop from viewer k on; CalledProcessError and
\* FileNotFoundError move on to the next viewer, any other exception reaches
\* the outer handler (line 69), and the exhausted loop falls through to
\* `return True` (line 68).
RECURSIVE TryViewers(_, _)
TryViewers(run, k) ==
    IF k > Len(Viewers) THEN [ret |-> TRUE, launched |-> FALSE]
    ELSE IF run[k] = "ok" THEN [ret |-> TRUE, launched |-> TRUE]
    ELSE IF run[k] \in {"CalledProcessError", "FileNotFoundError"}
        THEN TryViewers(run, k + 1)
    ELSE NotDisplayed

\* lines 53-71: run[1] is the outcome of the single launch on Darwin and
\* Windows, run[k] of the k-th viewer on Linux
DisplayImageTerminal(sys, run) ==
    CASE sys \in {"Darwin", "Windows"} ->
            IF run[1] = "ok" THEN [ret |-> TRUE, launched |-> TRUE]
            ELSE NotDisplayed
      [] sys = "Linux" -> TryViewers(run, 1)
      [] OTHER -> [ret |-> TRUE, launched |-> FALSE]

\* how webbrowser.open can end: it returns, or it raises
BrowserOutcomes == {"opened", "error"}

\* lines 73-80: True unless webbrowser.open raises
DisplayImageBrowser(out) ==
    IF out = "error" THEN NotDisplayed
    ELSE [ret |-> TRUE, launched |-> TRUE]

\* a fallback that leaves the session's choice as it was
FallbackChoiceKeep(dc) == dc

\* lines 226, 236, 244: display_choice = "4"
FallbackChoice(dc) == Four

\* lines 220-249: what one pass over the display code does with the decoded
\* page, given how each call it makes ends.
\*   nat: display_image_native; sv: image.save ("ok", or raising with or
\*   without the file left behind); term: what display_image_terminal
\*   returns; br: webbrowser.open; asc: image_to_ascii_enhanced
DisplayPage(dc, nat, sv, term, br, asc) ==
    LET s1 == IF dc = One THEN DisplayImageNative(nat) ELSE NotDisplayed
        dc1 == IF dc = One /\ ~s1.ret THEN FallbackChoice(dc) ELSE dc
        saveRaised == dc1 = Two /\ sv # "ok"
        s2 == IF dc1 = Two THEN term ELSE s1
        dc2 == IF dc1 = Two /\ ~s2.ret THEN FallbackChoice(dc1) ELSE dc1
        s3 == IF dc2 = Three THEN DisplayImageBrowser(br) ELSE s2
        dc3 == IF dc2 = Three /\ ~s3.ret THEN FallbackChoice(dc2) ELSE dc2
        doAscii == dc3 = Four \/ ~s3.ret
    IN  IF saveRaised
        THEN [choice |-> dc1, success |-> FALSE, launched |-> FALSE,
              ascii |-> FALSE, raised |-> TRUE, file |-> (sv = "raise_file"),
              attempted |-> "2", failed |-> FALSE]
        ELSE [choice |-> dc3, success |-> s3.ret, launched |-> s3.launched,
              ascii |-> (doAscii /\ asc = "ok"),
              raised |-> (doAscii /\ asc # "ok"),
              file |-> (dc1 = Two),
              attempted |-> (IF dc \in {One, Two, Three} THEN dc[1] ELSE "none"),
              failed |-> (dc \in {One, Two, Three} /\ ~s3.ret)]

----------------------------------------------------------------------------
(* Chapter numbers: the catalog's attributes.chapter is None or a string;    *)
(* `search` passes that string, or the integer 1, on as chapter_number.      *)

PyNone == [t |-> "none", s |-> <<>>]
PyStrVal(s) == [t |-> "str", s |-> s]
PyInt1 == [t |-> "int", s |-> <<"1">>]

\* truth value of a chapter attribute
Truthy(v) == v.t # "none" /\ v.s # <<>>

\* str(v) for a string or the integer 1
PyStr(v) == v.s

Digits == {"0", "1", "2", "3", "4", "5", "6", "7", "8", "9"}

DotAt(s) == IF \E k \in 1..Len(s) : s[k] = "."
            THEN CHOOSE k \in 1..Len(s) : s[k] = "."
            ELSE Len(s) + 1

\* float(s) succeeds: over digits, "." and other letters, a plain decimal
\* literal with at least one digit and at most one "."
FloatParses(s) ==
    LET t == Strip(s) IN
    /\ \A k \in 1..Len(t) : t[k] \in Digits \cup {"."}
    /\ \E k \in 1..Len(t) : t[k] \in Digits
    /\ Cardinality({k \in 1..Len(t) : t[k] = "."}) <= 1

RECURSIVE DropLeadingZeros(_)
DropLeadingZeros(s) ==
    IF Len(s) > 1 /\ Head(s) = "0" THEN DropLeadingZeros(Tail(s)) ELSE s

RECURSIVE DropTrailingZeros(_)
DropTrailingZeros(s) ==
    IF Len(s) > 1 /\ s[Len(s)] = "0"
        THEN DropTrailingZeros(SubSeq(s, 1, Len(s) - 1))
        ELSE s

\* str(float(s)) for a short decimal literal: "1" -> "1.0", "01.50" -> "1.5"
StrFloat(s) ==
    LET t == Strip(s)
        d == DotAt(t)
        ip == SubSeq(t, 1, d - 1)
        fp == SubSeq(t, d + 1, Len(t))
    IN  DropLeadingZeros(IF ip = <<>> THEN <<"0">> ELSE ip) \o <<".">>
        \o DropTrailingZeros(IF fp = <<>> THEN <<"0">> ELSE fp)

\* lines 185-191: the index of the chosen chapter from position k on; float()
\* of a chapter string that is no number raises ValueError
RECURSIVE SelectFrom(_, _, _)
SelectFrom(chs, ch, k) ==
    IF k > Len(chs) THEN [raised |-> FALSE, index |-> 1]
    ELSE IF ~Truthy(chs[k]) THEN SelectFrom(chs, ch, k + 1)
    ELSE IF ~FloatParses(chs[k].s) THEN [raised |-> TRUE, index |-> 0]
    ELSE IF StrFloat(chs[k].s) = PyStr(ch) THEN [raised |-> FALSE, index |-> k]
    ELSE SelectFrom(chs, ch, k + 1)

SelectChapter(chs, ch) == SelectFrom(chs, ch, 1)

\* values of attributes.chapter the catalog may answer with
ChapterAttrs ==
    { PyNone, PyStrVal(<<"1">>), PyStrVal(<<"x">>) }

ChapterLists == UNION { [1..n -> ChapterAttrs] : n \in 1..MaxChapters }

\* what get_chapters returns: None (lines 128-130) or the feed, whose data
\* may be empty
ChapterFeeds ==
    { [ok |-> FALSE, data |-> <<>>], [ok |-> TRUE, data |-> <<>>] }
    \cup { [ok |-> TRUE, data |-> l] : l \in ChapterLists }

\* lines 181, 320: not chapters_data or not chapters_data.get('data')
NoChapters(feed) == ~feed.ok \/ feed.data = <<>>

\* what get_chapter_pages returns: None (-1) or a list of that many URLs
PageResults == (-1)..MaxLen

----------------------------------------------------------------------------
(* Progress store *)

MangaIds == {"m1", "m2"}

NoRecords == [m \in {} |-> 0]

\* a track_manga that writes a new record whether or not one exists
TrackMangaReset(d, m) ==
    [x \in DOMAIN d \cup {m} |->
        IF x = m
        THEN [title |-> m, read_chapters |-> <<>>, last_read |-> <<>>,
              total_chapters |-> 0]
        ELSE d[x]]

\* lines 274, 279: track_manga calls save_data
TrackSaves(d, m) == m \notin DOMAIN d

\* lines 273-279
TrackManga(d, m) ==
    IF m \notin DOMAIN d
    THEN [x \in DOMAIN d \cup {m} |->
            IF x = m
            THEN [title |-> m, read_chapters |-> <<>>, last_read |-> <<>>,
                  total_chapters |-> 0]
            ELSE d[x]]
    ELSE d

InSeq(x, q) == \E k \in 1..Len(q) : q[k] = x

\* a mark_chapter_read without the test `chapter_number not in read_chapters`
MarkChapterReadAgain(d, m, ch, t) ==
    IF m \in DOMAIN d
    THEN [d EXCEPT ![m].read_chapters = Append(@, ch), ![m].last_read = <<t>>]
    ELSE d

\* lines 282-283, 286: mark_chapter_read reads the clock and calls save_data
MarkSaves(d, m, ch) == m \in DOMAIN d /\ ~InSeq(ch, d[m].read_chapters)

\* lines 281-286
MarkChapterRead(d, m, ch, t) ==
    IF m \in DOMAIN d /\ ~InSeq(ch, d[m].read_chapters)
    THEN [d EXCEPT ![m].read_chapters = Append(@, ch), ![m].last_read = <<t>>]
    ELSE d

----------------------------------------------------------------------------
(* The page loop *)

\* a loop condition that forgets the page cap
LoopContinuesNoCap(idx, mp, n) == idx < n

\* line 211: the loop condition
LoopContinues(idx, mp, n) == idx < Min(mp, n)

\* a back move without the `i > 0` test
NavTargetNoGuard(cmd, idx) ==
    IF cmd = <<"q">> THEN [quit |-> TRUE, i |-> idx, back |-> FALSE]
    ELSE IF cmd = <<"b">>
        THEN [quit |-> FALSE, i |-> idx - 1, back |-> TRUE]
    ELSE [quit |-> FALSE, i |-> idx + 1, back |-> FALSE]

\* a back move that returns to the first page
NavTargetBackToStart(cmd, idx) ==
    IF cmd = <<"q">> THEN [quit |-> TRUE, i |-> idx, back |-> FALSE]
    ELSE IF cmd = <<"b">> /\ idx > 0
        THEN [quit |-> FALSE, i |-> 0, back |-> TRUE]
    ELSE [quit |-> FALSE, i |-> idx + 1, back |-> FALSE]

\* a command loop without the quit branch
NavTargetNoQuit(cmd, idx) ==
    IF cmd = <<"b">> /\ idx > 0
        THEN [quit |-> FALSE, i |-> idx - 1, back |-> TRUE]
    ELSE [quit |-> FALSE, i |-> idx + 1, back |-> FALSE]

\* a command loop in which an unknown command shows the same page again
NavTargetStay(cmd, idx) ==
    IF cmd = <<"q">> THEN [quit |-> TRUE, i |-> idx, back |-> FALSE]
    ELSE IF cmd = <<"b">> /\ idx > 0
        THEN [quit |-> FALSE, i |-> idx - 1, back |-> TRUE]
    ELSE [quit |-> FALSE, i |-> idx, back |-> FALSE]

\* lines 253-259: the effect of a navigation command at index idx
NavTarget(cmd, idx) ==
    IF cmd = <<"q">> THEN [quit |-> TRUE, i |-> idx, back |-> FALSE]
    ELSE IF cmd = <<"b">> /\ idx > 0
        THEN [quit |-> FALSE, i |-> idx - 1, back |-> TRUE]
    ELSE [quit |-> FALSE, i |-> idx + 1, back |-> FALSE]

\* a cleanup loop that names the files by j and not by j + 1
CleanupOffByOne(fs, n) == fs \ { j : j \in 0..(n - 1) }

\* lines 266-269: the files left after the cleanup loop over range(len(pages))
Cleanup(fs, n) == fs \ { j + 1 : j \in 0..(n - 1) }

----------------------------------------------------------------------------
(* image_to_ascii_enhanced, lines 145-176 *)

\* the grave accent, a character no string of this module can hold
Grave == "U+0060"

\* line 165: ascii_chars, from the lightest to the darkest character
Palette ==
    << " ", ".", "'", Grave, "^", "\"", ",", ":", ";", "I", "l", "!", "i", "~",
       "+", "?", "_", "]", "[", "}", "{", "1", ")", "(", "|", "\\", "/", "t",
       "f", "j", "r", "x", "n", "u", "v", "c", "z", "X", "Y", "U", "J", "C",
       "L", "Q", "0", "O", "Z", "m", "w", "q", "p", "d", "b", "k", "h", "a",
       "o", "*", "#", "M", "W", "&", "8", "%", "B", "@", "$" >>

\* len(ascii_chars)
PaletteSize == Len(Palette)

\* the values of a pixel of an image of mode 'L' (line 163)
Luminances == 0..255

\* an index computed with len(ascii_chars) in place of len(ascii_chars) - 1
CharIndexFullLength(pixel) == (pixel * PaletteSize) \div 255

\* line 173: int(pixel / 255 * (len(ascii_chars) - 1)).  The double computed
\* by pixel / 255 * 66 truncates to the integer quotient of pixel * 66 by 255
\* for each of the 256 pixel values.
CharIndex(pixel) == (pixel * (PaletteSize - 1)) \div 255

\* line 174: ascii_chars[char_index] * 2 (sequences count from 1)
Emit(idx) == << Palette[idx + 1], Palette[idx + 1] >>

\* a line break in front of every row, the first included
LineBreakEveryRow(idx, width) == IF idx % width = 0 THEN << "\n" >> ELSE << >>

\* lines 171-172: what is added in front of the pixel of index idx
LineBreak(idx, width) ==
    IF idx % width = 0 /\ idx # 0 THEN << "\n" >> ELSE << >>

----------------------------------------------------------------------------
(* State *)

PcValues ==
    {"idle", "askTrack", "askRead", "feed", "entering", "choose", "loading",
     "awaiting", "done", "crashed", "rendering", "rendered"}

args == <<caller, manga_id, chapter_number, max_pages>>
store == <<data, disk, now, marked>>
page == <<attempted, success, launched, ascii>>
walk == <<i, display_choice, orig_choice, created, fetches, fetched, backs,
          failedOn>>
render == <<image, pos, ascii_str>>
calls == <<prev, saved>>
rest == <<files0, render, calls>>

\* a temp file an interrupted earlier session left behind (line 229 writes it,
\* a KeyboardInterrupt at line 252 skips lines 266-269)
StaleFiles == { {}, {1} }

NoImage == [width |-> 0, height |-> 0, pixels |-> <<>>]

\* no session, no rendering and no store call has begun
Fresh ==
    /\ caller = "none"
    /\ system = "unknown"
    /\ manga_id = "none"
    /\ chapter_number = PyNone
    /\ max_pages = 0
    /\ npages = 0
    /\ i = 0
    /\ display_choice = <<>>
    /\ orig_choice = <<>>
    /\ created = {}
    /\ fetches = 0
    /\ fetched = -1
    /\ backs = 0
    /\ failedOn = 0
    /\ input = <<>>
    /\ ev = "init"
    /\ ret = "none"
    /\ attempted = "none"
    /\ success = FALSE
    /\ launched = FALSE
    /\ ascii = FALSE
    /\ marked = FALSE
    /\ pos = 0
    /\ ascii_str = <<>>
    /\ prev = NoRecords
    /\ saved = FALSE

\* lines 23-26, 82-87: a new process in a directory without manga_data.json
Init ==
    /\ pc = "idle"
    /\ Fresh
    /\ files0 \in StaleFiles
    /\ files = files0
    /\ disk = NoRecords
    /\ data = NoRecords
    /\ now = 1
    /\ image = NoImage

NoPage ==
    /\ attempted' = "none"
    /\ success' = FALSE
    /\ launched' = FALSE
    /\ ascii' = FALSE

NoWalk ==
    /\ i' = 0
    /\ display_choice' = <<>>
    /\ orig_choice' = <<>>
    /\ created' = {}
    /\ fetches' = 0
    /\ fetched' = -1
    /\ backs' = 0
    /\ failedOn' = 0

\* read_chapter_enhanced is over with value r ("True", "False") and the temp
\* files fs; `search` then records the chapter (line 323), a direct caller
\* does nothing more.
SessionReturns(who, m, ch, r, fs) ==
    /\ pc' = "done"
    /\ ret' = r
    /\ files' = fs
    /\ IF who = "search"
       THEN /\ data' = MarkChapterRead(data, m, ch, now)
            /\ disk' = IF data' # data THEN data' ELSE disk
            /\ marked' = (data' # data)
            /\ now' = IF data' # data THEN now + 1 ELSE now
       ELSE UNCHANGED store

\* lines 265-271: the loop is left, the cleanup True is returned
LoopExit(fs) ==
    SessionReturns(caller, manga_id, chapter_number, "True", Cleanup(fs, npages))

----------------------------------------------------------------------------
(* The search command, lines 295-323 *)

\* lines 296-307: no results, or "q" at the pick prompt
SearchQuit ==
    /\ pc = "idle"
    /\ pc' = "done"
    /\ caller' = "search"
    /\ ev' = "no_pick"
    /\ UNCHANGED <<rest, system, manga_id, chapter_number, max_pages, npages,
                   files, input, ret, store, page, walk>>

\* lines 305-314: a manga of the result list is picked
SearchPick(m) ==
    /\ pc = "idle"
    /\ pc' = "askTrack"
    /\ caller' = "search"
    /\ manga_id' = m
    /\ ev' = "picked"
    /\ UNCHANGED <<rest, system, chapter_number, max_pages, npages, files,
                   input, ret, store, page, walk>>

\* lines 315-316: "Track manga? (y/n)"
AnswerTrack(raw) ==
    /\ pc = "askTrack"
    /\ data' = IF NavCommand(raw) = <<"y">> THEN TrackManga(data, manga_id) ELSE data
    /\ disk' = IF data' # data THEN data' ELSE disk
    /\ pc' = "askRead"
    /\ ev' = "track_answered"
    /\ UNCHANGED <<rest, system, args, npages, files, input, ret, now, marked,
                   page, walk>>

\* lines 317-318: "Start reading from first chapter? (y/n)"
AnswerRead(raw) ==
    /\ pc = "askRead"
    /\ pc' = IF NavCommand(raw) = <<"y">> THEN "feed" ELSE "done"
    /\ ev' = "read_answered"
    /\ UNCHANGED <<rest, system, args, npages, files, input, ret, store, page, walk>>

\* lines 319-322: the chapter feed of the picked manga; its first chapter
\* number, or 1, is what is read with max_pages=5
FetchFeed(feed) ==
    /\ pc = "feed"
    /\ IF NoChapters(feed)
       THEN /\ pc' = "done"
            /\ ev' = "no_feed"
            /\ UNCHANGED <<chapter_number, max_pages>>
       ELSE /\ pc' = "entering"
            /\ ev' = "feed"
            /\ chapter_number' =
                 IF Truthy(feed.data[1]) THEN feed.data[1] ELSE PyInt1
            /\ max_pages' = 5
    /\ UNCHANGED <<rest, system, caller, manga_id, npages, files, input, ret,
                   store, page, walk>>

\* chapter numbers and page caps a direct caller passes
RequestedChapters == { PyStrVal(<<"1", ".", "0">>), PyStrVal(<<"x">>) }
MaxPagesArgs == {0, 2, 5}

\* the manga a direct caller reads
DirectManga == "m1"

\* line 178: read_chapter_enhanced(manga_id, chapter_number, max_pages) called
\* on a tracker by other code than `search`
DirectRead(m, ch, mp) ==
    /\ pc = "idle"
    /\ pc' = "entering"
    /\ caller' = "direct"
    /\ manga_id' = m
    /\ chapter_number' = ch
    /\ max_pages' = mp
    /\ ev' = "called"
    /\ UNCHANGED <<rest, system, npages, files, input, ret, store, page, walk>>

----------------------------------------------------------------------------
(* read_chapter_enhanced, lines 178-271 *)

\* lines 180-204: the chapter feed, the choice of the chapter and its page
\* list, up to the display-method prompt
EnterSession(feed, pr) ==
    /\ pc = "entering"
    /\ NoWalk
    /\ NoPage
    /\ IF NoChapters(feed)
       THEN /\ ev' = "no_chapters"
            /\ npages' = 0
            /\ SessionReturns(caller, manga_id, chapter_number, "False", files)
       ELSE IF SelectChapter(feed.data, chapter_number).raised
       THEN /\ ev' = "value_error"
            /\ npages' = 0
            /\ pc' = "crashed"
            /\ ret' = "raised"
            /\ UNCHANGED <<files, store>>
       ELSE IF pr <= 0
       THEN /\ ev' = "no_pages"
            /\ npages' = 0
            /\ SessionReturns(caller, manga_id, chapter_number, "False", files)
       ELSE /\ ev' = "prompt"
            /\ npages' = pr
            /\ pc' = "choose"
            /\ ret' = "none"
            /\ UNCHANGED <<files, store>>
    /\ UNCHANGED <<rest, system, args, input>>

\* lines 205-211: the display method is read and the loop entered
Choose(raw) ==
    /\ pc = "choose"
    /\ display_choice' = ChoiceOf(raw)
    /\ orig_choice' = ChoiceOf(raw)
    /\ i' = 0
    /\ ev' = "chosen"
    /\ IF LoopContinues(0, max_pages, npages)
       THEN /\ pc' = "loading"
            /\ UNCHANGED <<files, ret, store>>
       ELSE LoopExit(files)
    /\ UNCHANGED <<rest, system, args, npages, input, created, fetches, fetched,
                   backs, failedOn, page>>

\* an interrupted prompt that returns through the cleanup of lines 266-269
ChooseInterruptedCleans ==
    /\ pc = "choose"
    /\ ev' = "prompt_interrupted"
    /\ SessionReturns(caller, manga_id, chapter_number, "False",
                      Cleanup(files, npages))
    /\ UNCHANGED <<rest, system, args, npages, input, page, walk>>

\* lines 207-208: EOFError or KeyboardInterrupt at the display-method prompt
ChooseInterrupted ==
    /\ pc = "choose"
    /\ ev' = "prompt_interrupted"
    /\ SessionReturns(caller, manga_id, chapter_number, "False", files)
    /\ UNCHANGED <<rest, system, args, npages, input, page, walk>>

\* a handler that goes round the loop again instead of leaving it
HandleLoadErrorRetry(kind) ==
    /\ ev' = kind
    /\ pc' = "loading"
    /\ NoPage
    /\ UNCHANGED <<files, ret, store, i, display_choice, created, failedOn>>

\* lines 261-263 and on: the handler of an exception raised in the loop body
\* prints the failure and leaves the loop
HandleLoadError(kind) ==
    /\ ev' = kind
    /\ LoopExit(files)
    /\ NoPage
    /\ UNCHANGED <<i, display_choice, created, failedOn>>

\* lines 212-218: the request fails (requests.get, raise_for_status) or the
\* bytes are no image (Image.open)
LoadPageFails ==
    /\ pc = "loading"
    /\ fetches' = fetches + 1
    /\ fetched' = i
    /\ HandleLoadError("load_error")
    /\ UNCHANGED <<rest, system, args, npages, input, orig_choice, backs>>

\* the outcomes of the calls the display code makes that the chosen method
\* can reach
NativeOutcomes(dc) == IF dc = One THEN {"ok", "error"} ELSE {"ok"}
SaveOutcomes(dc) == IF dc = Two THEN {"ok", "raise_file", "raise_nofile"} ELSE {"ok"}
\* line 55: the platform is the same on every call
HostSystems(dc) == IF dc = Two /\ system = "unknown" THEN Systems ELSE {system}
\* what display_image_terminal can return on platform sys, over every way its
\* launches can end
TerminalResults(dc, sys) ==
    IF dc = Two
    THEN { DisplayImageTerminal(sys, run) : run \in [1..Len(Viewers) -> RunOutcomes] }
    ELSE {NotDisplayed}
OpenOutcomes(dc) == IF dc = Three THEN BrowserOutcomes ELSE {"opened"}
AsciiOutcomes == {"ok", "error"}

\* lines 212-251: the page is fetched, decoded and handed to the display code;
\* then the loop waits for a command, or an exception of image.save or of the
\* ASCII renderer ends it
LoadPageShows(sys, nat, sv, term, br, asc) ==
    /\ pc = "loading"
    /\ fetches' = fetches + 1
    /\ fetched' = i
    /\ system' = IF display_choice = Two THEN sys ELSE system
    /\ input' = <<>>
    /\ LET r == DisplayPage(display_choice, nat, sv, term, br, asc)
           fs == IF r.file THEN files \cup {i + 1} ELSE files
       IN  /\ display_choice' = r.choice
           /\ created' = IF r.file THEN created \cup {i + 1} ELSE created
           /\ failedOn' = IF r.failed /\ failedOn = 0
                          THEN fetches + 1 ELSE failedOn
           /\ attempted' = r.attempted
           /\ success' = r.success
           /\ launched' = r.launched
           /\ ascii' = r.ascii
           /\ IF r.raised
              THEN /\ ev' = "display_error"
                   /\ LoopExit(fs)
              ELSE /\ ev' = "page"
                   /\ pc' = "awaiting"
                   /\ files' = fs
                   /\ UNCHANGED <<ret, store>>
    /\ UNCHANGED <<rest, args, npages, i, orig_choice, backs>>

\* lines 252-259: a command is read at page i
Navigate(raw) ==
    /\ pc = "awaiting"
    /\ LET t == NavTarget(NavCommand(raw), i)
       IN  /\ t.back => backs < MaxBack
           /\ backs' = IF t.back THEN backs + 1 ELSE backs
           /\ i' = t.i
           /\ IF ~t.quit /\ LoopContinues(t.i, max_pages, npages)
              THEN /\ pc' = "loading"
                   /\ UNCHANGED <<files, ret, store>>
              ELSE LoopExit(files)
    /\ input' = raw
    /\ ev' = "nav"
    /\ NoPage
    /\ UNCHANGED <<rest, system, args, npages, display_choice, orig_choice,
                   created, fetches, fetched, failedOn>>

\* line 252 raising EOFError, which the handler of line 261 catches
NavigateEOF ==
    /\ pc = "awaiting"
    /\ HandleLoadError("eof")
    /\ UNCHANGED <<rest, system, args, npages, input, orig_choice, fetches, fetched,
                   backs>>

\* line 252 raising KeyboardInterrupt, which is no Exception: it leaves
\* read_chapter_enhanced and the command
NavigateInterrupt ==
    /\ pc = "awaiting"
    /\ pc' = "crashed"
    /\ ret' = "raised"
    /\ ev' = "interrupt"
    /\ NoPage
    /\ UNCHANGED <<rest, system, args, npages, input, files, store, walk>>

Next ==
    \/ SearchQuit
    \/ \E m \in MangaIds : SearchPick(m)
    \/ \E raw \in YesNoInputs : AnswerTrack(raw)
    \/ \E raw \in YesNoInputs : AnswerRead(raw)
    \/ \E feed \in ChapterFeeds : FetchFeed(feed)
    \/ \E ch \in RequestedChapters, mp \in MaxPagesArgs :
          DirectRead(DirectManga, ch, mp)
    \/ \E feed \in ChapterFeeds, pr \in PageResults : EnterSession(feed, pr)
    \/ \E raw \in ChoiceInputs : Choose(raw)
    \/ ChooseInterrupted
    \/ LoadPageFails
    \/ \E sys \in HostSystems(display_choice) :
          \E nat \in NativeOutcomes(display_choice), sv \in SaveOutcomes(display_choice),
             term \in TerminalResults(display_choice, sys),
             br \in OpenOutcomes(display_choice), asc \in AsciiOutcomes :
             LoadPageShows(sys, nat, sv, term, br, asc)
    \/ \E raw \in NavInputs : Navigate(raw)
    \/ NavigateEOF
    \/ NavigateInterrupt

Spec == Init /\ [][Next]_vars

----------------------------------------------------------------------------
(* A reading session in which every call returns *)

\* read_chapter_enhanced called directly, without a KeyboardInterrupt at the
\* navigation prompt
LiveNext ==
    \/ \E ch \in RequestedChapters, mp \in MaxPagesArgs :
          DirectRead(DirectManga, ch, mp)
    \/ \E feed \in ChapterFeeds, pr \in PageResults : EnterSession(feed, pr)
    \/ \E raw \in ChoiceInputs : Choose(raw)
    \/ ChooseInterrupted
    \/ LoadPageFails
    \/ \E sys \in HostSystems(display_choice) :
          \E nat \in NativeOutcomes(display_choice), sv \in SaveOutcomes(display_choice),
             term \in TerminalResults(display_choice, sys),
             br \in OpenOutcomes(display_choice), asc \in AsciiOutcomes :
             LoadPageShows(sys, nat, sv, term, br, asc)
    \/ \E raw \in NavInputs : Navigate(raw)
    \/ NavigateEOF

\* requests.get has a timeout (line 215) and the user answers every prompt:
\* a step that can be taken is taken
SpecLive == Init /\ [][LiveNext]_vars /\ WF_vars(LiveNext)

----------------------------------------------------------------------------
(* One call of image_to_ascii_enhanced on its own *)

\* the pixel values the rendered images are made of
PixelSamples == {0, 128, 255}

\* lines 162-168: the image is resized to width x height (both positive here)
\* and converted to mode 'L'; its pixels are revealed as the loop reads them
RenderInit ==
    /\ pc = "rendering"
    /\ Fresh
    /\ files0 = {}
    /\ files = {}
    /\ disk = NoRecords
    /\ data = NoRecords
    /\ now = 1
    /\ \E w \in 1..MaxWidth, h \in 1..MaxHeight :
          image = [width |-> w, height |-> h, pixels |-> << >>]

\* lines 170-174: one iteration of the loop, on the pixel of index pos
RenderPixel(pixel) ==
    /\ pc = "rendering"
    /\ pos < image.width * image.height
    /\ image' = [image EXCEPT !.pixels = Append(@, pixel)]
    /\ ascii_str' = ascii_str \o LineBreak(pos, image.width)
                               \o Emit(CharIndex(pixel))
    /\ pos' = pos + 1
    /\ UNCHANGED <<pc, files0, calls, system, args, npages, files, input, ev,
                   ret, store, page, walk>>

\* line 176: the loop is over, ascii_str is returned
RenderReturn ==
    /\ pc = "rendering"
    /\ pos = image.width * image.height
    /\ pc' = "rendered"
    /\ UNCHANGED <<rest, system, args, npages, files, input, ev, ret, store,
                   page, walk>>

RenderNext ==
    \/ \E pixel \in PixelSamples : RenderPixel(pixel)
    \/ RenderReturn

SpecRender == RenderInit /\ [][RenderNext]_vars

----------------------------------------------------------------------------
(* The store methods called on a tracker, one call at a time *)

\* chapter numbers given to mark_chapter_read: the number 1 and the text "1"
StoreChapters == { PyInt1, PyStrVal(<<"1">>) }

\* lines 273-279: tracker.track_manga(m, title)
CallTrack(m) ==
    /\ pc = "idle"
    /\ prev' = data
    /\ data' = TrackManga(data, m)
    /\ saved' = TrackSaves(data, m)
    /\ disk' = IF saved' THEN data' ELSE disk
    /\ manga_id' = m
    /\ ev' = "track"
    /\ UNCHANGED <<pc, files0, render, system, caller, chapter_number,
                   max_pages, npages, files, input, ret, now, marked, page,
                   walk>>

\* lines 281-286: tracker.mark_chapter_read(m, ch)
CallMark(m, ch) ==
    /\ pc = "idle"
    /\ prev' = data
    /\ data' = MarkChapterRead(data, m, ch, now)
    /\ saved' = MarkSaves(data, m, ch)
    /\ disk' = IF saved' THEN data' ELSE disk
    /\ now' = IF saved' THEN now + 1 ELSE now
    /\ manga_id' = m
    /\ chapter_number' = ch
    /\ ev' = "mark"
    /\ UNCHANGED <<pc, files0, render, system, caller, max_pages, npages,
                   files, input, ret, marked, page, walk>>

StoreNext ==
    \/ \E m \in MangaIds : CallTrack(m)
    \/ \E m \in MangaIds, ch \in StoreChapters : CallMark(m, ch)

SpecStore == Init /\ [][StoreNext]_vars

----------------------------------------------------------------------------
(* Properties *)

PageCap == Min(max_pages, npages)

\* the input of the last navigation step, as the loop compares it
LastCommand == NavCommand(input)

\* C1: whenever the walker fetches page i or waits for a command at page i,
\* 0 <= i <= min(max_pages, len(pages)) - 1; the page fetched last is in the
\* same range.
C1_IndexInRange ==
    /\ pc \in {"loading", "awaiting"} => (0 <= i /\ i <= PageCap - 1)
    /\ fetches > 0 => (0 <= fetched /\ fetched <= PageCap - 1)

\* the walker waits at the last allowed index of a capped chapter, after a
\* back move
C1_Witness ==
    /\ pc = "awaiting"
    /\ max_pages = 2
    /\ npages = 3
    /\ i = 1
    /\ backs = 1

\* C2 as stated: on every page shown in a session whose chosen strategy is
\* Native, SystemViewer or Browser, that strategy is the one attempted.
C2_OriginalRetriedEveryPage ==
    (pc = "awaiting" /\ orig_choice \in {One, Two, Three})
        => attempted = orig_choice[1]

\* C2 amended: the chosen strategy is attempted on a page exactly when no
\* earlier page visit of the session saw it report failure; from the failing
\* visit on display_choice is "4", and every later page is rendered as ASCII
\* art with no other mechanism attempted.
C2_FallbackIsPermanent ==
    (pc = "awaiting" /\ orig_choice \in {One, Two, Three}) =>
        /\ (attempted = orig_choice[1]) <=> (failedOn = 0 \/ failedOn = fetches)
        /\ failedOn # 0 => display_choice = Four
        /\ (failedOn # 0 /\ failedOn < fetches) => (attempted = "none" /\ ascii)

\* SystemViewer failed on the first visit; the second visit shows ASCII art
\* without trying it again
C2_Witness ==
    /\ pc = "awaiting"
    /\ orig_choice = Two
    /\ failedOn = 1
    /\ fetches = 2
    /\ attempted = "none"
    /\ ascii

\* C3: "b" entered at index 0 keeps the index at 0 and loads page 0 again.
C3_BackAtFirstPageStays ==
    (ev = "nav" /\ LastCommand = <<"b">> /\ fetched = 0)
        => (pc = "loading" /\ i = 0)

\* C4: in the search-and-read flow, a session that returned False or was
\* aborted by a fetch/decode error leaves the chapter unrecorded.
C4_MarkOnlyAfterSuccess ==
    (caller = "search" /\ pc = "done" /\ (ret = "False" \/ ev = "load_error"))
        => ~marked

\* pages that reached the command prompt, i.e. were displayed, in the session
DisplayedPages ==
    fetches - (IF ev \in {"load_error", "display_error"} THEN 1 ELSE 0)

\* C5: the value returned by a session is True if and only if at least one
\* page was displayed during it; stated for the sessions that started a page
\* fetch, so that a session whose first fetch or decode fails returns False.
C5_TrueIffPageDisplayed ==
    (pc = "done" /\ ret \in {"True", "False"} /\ fetches > 0)
        => (ret = "True" <=> DisplayedPages > 0)

\* C6: when a session that got to the page loop returns, by "q", by advancing
\* past the last allowed page or by an error caught in the loop, no temp file
\* written during the session is left, and neither is any temp_page_k.png
\* with k <= len(pages).
C6_CleanupAtEnd ==
    (pc = "done" /\ ret = "True") =>
        /\ created \cap files = {}
        /\ files \cap (1..npages) = {}

\* a session aborted on its third page, after temp files for pages 1 and 2
C6_Witness ==
    /\ pc = "done"
    /\ ev = "load_error"
    /\ npages = 3
    /\ created = {1, 2}
    /\ files = {}

\* C7: display_image_terminal returns True only if an opener was launched
\* without error, and False when every option fails.
C7_TerminalTrueIffLaunched ==
    (pc = "awaiting" /\ attempted = "2") => (success <=> launched)

\* C8: a failed fetch or decode ends the session: the loop is left at once
\* (no later fetch, no command read), the cleanup has run, and the session
\* returns normally.
C8_AbortOnLoadError ==
    ev = "load_error" =>
        /\ pc = "done"
        /\ ret = "True"
        /\ fetched = i
        /\ created \cap files = {}
        /\ ~ENABLED (LoadPageFails \/ NavigateEOF \/ NavigateInterrupt)

\* the second page fails to load after the first left a temp file
C8_Witness ==
    /\ ev = "load_error"
    /\ fetches = 2
    /\ created = {1}
    /\ pc = "done"

\* C9: every page the walker waits at has been put on display: by the chosen
\* mechanism, or, when that one did not show it, as ASCII art.
C9_EveryPageShown ==
    pc = "awaiting" => (launched \/ ascii)

\* C10 as stated: an input other than "q" and "b" advances by one page, or
\* ends the session when the next index is past the cap.
C10_OriginalOtherInputAdvances ==
    (ev = "nav" /\ input \notin {<<"q">>, <<"b">>}) =>
        IF fetched + 1 < PageCap
        THEN pc = "loading" /\ i = fetched + 1
        ELSE pc = "done" /\ ret = "True"

\* C10 amended: the input is compared after strip() and lower(); a command
\* other than "q" and "b" advances by one page, or ends the session when the
\* next index is past the cap. Without a back move the pages are fetched in
\* the order 0, 1, 2, ..., each once, and a session that ends by advancing has
\* fetched exactly min(max_pages, len(pages)) of them.
C10_OtherCommandAdvances ==
    /\ (ev = "nav" /\ LastCommand \notin {<<"q">>, <<"b">>}) =>
          IF fetched + 1 < PageCap
          THEN pc = "loading" /\ i = fetched + 1
          ELSE pc = "done" /\ ret = "True"
    /\ (backs = 0 /\ pc = "awaiting") => (fetched = i /\ fetches = i + 1)
    /\ (backs = 0 /\ pc = "loading") => (fetched = i - 1 /\ fetches = i)
    /\ (backs = 0 /\ pc = "done" /\ ev = "nav" /\ LastCommand # <<"q">>)
          => (fetches = PageCap /\ fetched = PageCap - 1)

\* max_pages=5 and three pages: the session ends on an advancing input at
\* index 2, after three fetches
C10_Witness ==
    /\ pc = "done"
    /\ ev = "nav"
    /\ input = <<"n">>
    /\ max_pages = 5
    /\ npages = 3
    /\ backs = 0
    /\ fetches = 3
    /\ fetched = 2

\* C11: "b" entered at page i > 0 moves to the loading of page i - 1, exactly
\* one page back, and the page gone back to is fetched again: a page is on
\* display only after a fetch of that very page, and the fetches count every
\* visit, the repeated ones included (nothing is kept from an earlier visit).
C11_BackRefetchesPreviousPage ==
    /\ (ev = "nav" /\ LastCommand = <<"b">> /\ fetched > 0)
          => (pc = "loading" /\ i = fetched - 1 /\ ret = "none")
    /\ pc = "awaiting" => (fetched = i /\ fetches = i + 2 * backs + 1)

\* page 1 (index 0) is on display a second time, after pages 1 and 2 and "b"
C11_Witness ==
    /\ pc = "awaiting" /\ backs = 1 /\ i = 0 /\ fetched = 0 /\ fetches = 3

\* C12: "q" at any index ends the session at once: no further page is fetched
\* or displayed, the cleanup has run and the value is True.  With two pages,
\* max_pages = 5 and ASCII display, the inputs "" and "q" show page 1, then
\* page 2, and end the session with True.
C12_QuitEndsSession ==
    /\ (ev = "nav" /\ LastCommand = <<"q">>)
          => /\ pc = "done"
             /\ ret = "True"
             /\ i = fetched
             /\ fetches = i + 2 * backs + 1
             /\ created \cap files = {}
             /\ files \cap (1..npages) = {}
             /\ ~ENABLED Next
    /\ (pc = "awaiting" /\ orig_choice = Four) => (ascii /\ attempted = "none")

\* the scenario: pages [urlA, urlB], max_pages = 5, ASCII, inputs "", "q"
C12_Witness ==
    /\ pc = "done" /\ ev = "nav" /\ input = <<"q">> /\ ret = "True"
    /\ npages = 2 /\ max_pages = 5 /\ orig_choice = Four
    /\ fetches = 2 /\ fetched = 1 /\ backs = 0

\* the number of line breaks of a text
CountBreaks(s) == Cardinality({ k \in 1..Len(s) : s[k] = "\n" })

\* the lines of a text from position k on, as str.split('\n') cuts them
RECURSIVE SplitFrom(_, _)
SplitFrom(s, k) ==
    IF k > Len(s) THEN << << >> >>
    ELSE LET r == SplitFrom(s, k + 1)
         IN  IF s[k] = "\n" THEN << << >> >> \o r
             ELSE << (<< s[k] >> \o r[1]) >> \o Tail(r)

SplitLines(s) == SplitFrom(s, 1)

\* C13 as stated: the text returned for a width x height image holds exactly
\* `height` line breaks and each of its lines has 2 * width characters (an
\* empty last line after a final break is let through).
C13_OriginalHeightLineBreaks ==
    pc = "rendered" =>
        /\ CountBreaks(ascii_str) = image.height
        /\ \A k \in 1..Len(SplitLines(ascii_str)) :
              Len(SplitLines(ascii_str)[k]) \in {0, 2 * image.width}

\* C13 (amended): the text returned for a width x height image is made of
\* `height` lines of exactly 2 * width characters each, separated by exactly
\* height - 1 line breaks: there is no break before the first line and none
\* after the last.
C13_LinesSeparatedByBreaks ==
    pc = "rendered" =>
        /\ CountBreaks(ascii_str) = image.height - 1
        /\ Len(SplitLines(ascii_str)) = image.height
        /\ \A k \in 1..Len(SplitLines(ascii_str)) :
              Len(SplitLines(ascii_str)[k]) = 2 * image.width
        /\ ascii_str[1] # "\n"
        /\ ascii_str[Len(ascii_str)] # "\n"

\* a 2 x 2 image has been rendered
C13_Witness ==
    /\ pc = "rendered" /\ image.width = 2 /\ image.height = 2
    /\ Len(ascii_str) = 9

\* C14: the palette index computed for a luminance is the floor of
\* luminance / 255 * (PaletteSize - 1); it is 0 for luminance 0 and
\* PaletteSize - 1 for luminance 255, does not decrease when the luminance
\* grows, and is an index of the palette for each luminance of 0..255; the
\* characters rendered so far are the palette characters at these indexes.
C14_IndexInsidePalette ==
    /\ CharIndex(0) = 0
    /\ CharIndex(255) = PaletteSize - 1
    /\ \A l \in Luminances :
          /\ CharIndex(l) \in 0..(PaletteSize - 1)
          /\ CharIndex(l) * 255 <= l * (PaletteSize - 1)
          /\ l * (PaletteSize - 1) < (CharIndex(l) + 1) * 255
          /\ l < 255 => CharIndex(l) <= CharIndex(l + 1)
    /\ pc \in {"rendering", "rendered"} =>
          \A k \in 1..pos :
             \E c \in 1..Len(ascii_str) :
                /\ ascii_str[c] = Palette[CharIndex(image.pixels[k]) + 1]
                /\ image.pixels[k] = 0 => ascii_str[c] = " "
                /\ image.pixels[k] = 255 => ascii_str[c] = "$"

\* an image with the lightest, a middle and the darkest pixel was rendered
C14_Witness ==
    /\ pc = "rendered"
    /\ {0, 128, 255} \subseteq { image.pixels[k] : k \in 1..pos }
    /\ {" ", "u", "$"} \subseteq { ascii_str[c] : c \in 1..Len(ascii_str) }

\* how many times x occurs in the sequence q
Occurrences(x, q) == Cardinality({ k \in 1..Len(q) : q[k] = x })

\* C15: mark_chapter_read is idempotent.  From every store reached, a first
\* call for a tracked manga gives a store that a second call with the same
\* arguments, made later, leaves as it is without saving, the chapter being
\* listed once; and a call made for a chapter already recorded has changed
\* nothing (read_chapters and last_read as before) and saved nothing.
C15_MarkIsIdempotent ==
    /\ \A m \in DOMAIN data, ch \in StoreChapters :
          LET d1 == MarkChapterRead(data, m, ch, now)
          IN  /\ MarkChapterRead(d1, m, ch, now + 1) = d1
              /\ ~MarkSaves(d1, m, ch)
              /\ Occurrences(ch, d1[m].read_chapters) = 1
    /\ (/\ ev = "mark"
        /\ manga_id \in DOMAIN prev
        /\ InSeq(chapter_number, prev[manga_id].read_chapters))
          => (data = prev /\ ~saved /\ disk = prev)

\* the second call for a chapter recorded at an earlier time
C15_Witness ==
    /\ ev = "mark" /\ manga_id \in DOMAIN prev
    /\ InSeq(chapter_number, prev[manga_id].read_chapters)
    /\ data[manga_id].last_read # <<>>
    /\ data[manga_id].last_read[1] < now - 1

\* C19: the store methods change nothing outside their target.  track_manga
\* on an id already tracked leaves the store as it was (read_chapters and
\* last_read kept) and saves nothing; mark_chapter_read on an untracked id
\* creates no record, changes nothing and saves nothing; and no call changes
\* the record of another manga or adds another id.
C19_StoreFrame ==
    /\ (ev = "track" /\ manga_id \in DOMAIN prev) => (data = prev /\ ~saved)
    /\ (ev = "mark" /\ manga_id \notin DOMAIN prev)
          => (data = prev /\ ~saved /\ manga_id \notin DOMAIN data)
    /\ ev \in {"track", "mark"} =>
          /\ DOMAIN data \subseteq DOMAIN prev \cup {manga_id}
          /\ \A x \in DOMAIN prev \ {manga_id} :
                x \in DOMAIN data /\ data[x] = prev[x]
          /\ ~saved => disk = prev

\* track_manga was called for a manga that has a chapter recorded
C19_Witness ==
    /\ ev = "track" /\ manga_id \in DOMAIN prev
    /\ prev[manga_id].read_chapters # <<>>
    /\ prev[manga_id].last_read # <<>>

\* C16: whenever the chapter list is not empty the selection step (first
\* chapter whose number matches, else the first chapter) selects a chapter
\* and never ends the session: no session is left by an exception raised
\* while the chapter is selected, before any page is fetched.
C16_SelectionNeverEndsSession ==
    ~(pc = "crashed" /\ ev = "value_error" /\ ret = "raised" /\ fetches = 0)

\* C17: when the catalog gives no chapter list or an empty one, no page list
\* or an empty one, or the display-method prompt is interrupted, the session
\* is over with the value False: no page was fetched, no navigation command
\* was read, no temp file was written and the temp files found at the start
\* are all still there; nothing more is fetched or read afterwards.
C17_EarlyReturnTouchesNothing ==
    /\ ev \in {"no_chapters", "no_pages", "prompt_interrupted"}
          => /\ pc = "done"
             /\ ret = "False"
             /\ fetches = 0
             /\ fetched = -1
             /\ input = << >>
             /\ created = {}
             /\ files = files0
             /\ ~ENABLED Next
    /\ ret = "False"
          => (ev \in {"no_chapters", "no_pages", "prompt_interrupted"}
              /\ files = files0)

\* the prompt was interrupted in a directory that holds a stale temp file of
\* a page number the cleanup loop would have removed
C17_Witness ==
    /\ ev = "prompt_interrupted" /\ ret = "False" /\ pc = "done"
    /\ files0 = {1} /\ files = {1} /\ npages >= 1

InLoop == pc \in {"loading", "awaiting"}

\* what is left of the session: the pages ahead, the back moves still to
\* come, and the fetch of the current page
Rank ==
    2 * (PageCap - i) + 4 * (MaxBack - backs) + (IF pc = "loading" THEN 1 ELSE 0)

\* C18: a session in which every fetch and every read of a command returns
\* and in which "b" is entered at most MaxBack times ends: each step that
\* stays in the loop lowers Rank, which is never negative in the loop, and a
\* session in the loop leads to one that is over, its cleanup done.
C18_SessionTerminates ==
    /\ [][(InLoop /\ InLoop') => (Rank' < Rank /\ Rank' >= 0)]_vars
    /\ InLoop ~> (/\ pc = "done"
                  /\ ret = "True"
                  /\ created \cap files = {}
                  /\ files \cap (1..npages) = {})

\* a session that went back once and was then read to its last page
C18_Witness ==
    /\ pc = "done" /\ ret = "True" /\ ev = "nav" /\ backs = MaxBack
    /\ npages = 3 /\ fetched = 2 /\ fetches = 3 + 2 * MaxBack
    /\ LastCommand \notin {<<"q">>, <<"b">>}

====
